---- MODULE Spec2Model ----
(***************************************************************************)
(* Model of opengis/bridge/java/referencing.py: the Python wrapper classes *)
(* that forward referencing accessors to a Java object through jpy.        *)
(*                                                                         *)
(* State: the wrapper objects that exist (their class and their _proxy     *)
(* attribute), the argument each was constructed with, the state of the    *)
(* foreign objects behind the handles, and the record of the latest        *)
(* Python-side operation (which foreign accessors it invoked, what it      *)
(* returned or raised, which Python objects it made).                      *)
(*                                                                         *)
(* The decorators are modelled for the call shape only (@property).  The   *)
(* bodies of ellipsoid, prime_meridian, direction and unit hold no         *)
(* statement in the source: they invoke nothing and yield None.            *)
(***************************************************************************)
EXTENDS Integers, Sequences, FiniteSets, TLC

VARIABLES wrappers, given, jvm, last

vars == <<wrappers, given, jvm, last>>

\* ------------------------------------------------------------------ bounds
MaxWrappers == 2    \* wrapper objects alive at once
MaxVer == 1         \* versions 0..MaxVer of a foreign object's content
MaxDim == 1         \* axis() is called with dim in -1..MaxDim

\* ------------------------------------------------- the foreign side (jpy)
HandleNames == {"h1"}

Dims == (0 - 1)..MaxDim

\* A reference to a foreign object: the root handle it was reached from and
\* the accessors that led to it, the version of the content it was read at,
\* and the arguments of the accessor that returned it.
Ref(tag, path, ver, args) == [tag |-> tag, path |-> path, ver |-> ver, args |-> args]

Handle(h) == Ref("obj", <<h>>, 0, <<>>)

\* Java null, Python None.
None == Ref("null", <<>>, 0, <<>>)

Handles == {Handle(h) : h \in HandleNames}

Return(v) == [kind |-> "return", val |-> v]

Raise(e) == [kind |-> "raise", val |-> e]

\* What a foreign object can be in: healthy at some version of its content, or
\* answering every accessor with null, with a Java exception, or lacking the
\* method altogether (a handle of another type).
ForeignStates ==
    {[mode |-> "ok", ver |-> v] : v \in 0..MaxVer}
        \cup {[mode |-> m, ver |-> 0] : m \in {"null", "raise", "missing"}}

\* The number of axes of a coordinate system object at a version.
Dimension(st) == st.ver + 1

\* The outcome of  o.acc(args)  on a non-null foreign object o.
Foreign(o, acc, args) ==
    LET st == jvm[o.path[1]]
        p == Append(o.path, acc)
    IN  CASE st.mode = "missing" -> Raise(Ref("AttributeError", p, 0, args))
          [] st.mode = "raise" -> Raise(Ref("JavaException", p, 0, args))
          [] st.mode = "null" -> Return(None)
          [] OTHER ->
                IF acc = "getAxis" /\ args[1] \notin 0..(Dimension(st) - 1)
                THEN Raise(Ref("IndexOutOfBoundsException", p, 0, args))
                ELSE Return(Ref("obj", p, st.ver, args))

GetterStyle ==
    {"getName", "toWKT", "toString", "getEllipsoid", "getPrimeMeridian",
     "getAbbreviation", "getDirection", "getUnit", "getDimension", "getAxis",
     "getCoordinateSystem", "getDatum", "getBaseCRS", "getCode"}

\* What invoking acc does to the foreign object: a getter-style accessor
\* leaves it as it is, anything else may change its content.
ForeignEffect(st, acc) ==
    IF acc \in GetterStyle \/ st.mode # "ok"
    THEN st
    ELSE [st EXCEPT !.ver = (st.ver + 1) % (MaxVer + 1)]

RECURSIVE ApplyCalls(_, _)
ApplyCalls(j, calls) ==
    IF calls = <<>>
    THEN j
    ELSE LET c == Head(calls)
             h == c.on.path[1]
         IN  ApplyCalls([j EXCEPT ![h] = ForeignEffect(j[h], c.acc)], Tail(calls))

\* self._proxy.acc(args): attribute lookup on None fails in Python before
\* anything reaches the bridge; otherwise one invocation goes through it.
Invoke(proxy, acc, args) ==
    IF proxy = None
    THEN [calls |-> <<>>, out |-> Raise(Ref("AttributeError", <<"NoneType", acc>>, 0, args))]
    ELSE [calls |-> <<[on |-> proxy, acc |-> acc, args |-> args]>>,
          out |-> Foreign(proxy, acc, args)]

\* ------------------------------------------------------- the Python side
\* What one method call yields: the foreign invocations it made, what it
\* returned or raised, the object it was called on afterwards, and the
\* Python wrapper objects it constructed.
Result(calls, ret, self, made) ==
    [calls |-> calls, ret |-> ret, self |-> self, made |-> made]

\* return self._proxy.acc(args)
Forward(self, acc, args) ==
    LET inv == Invoke(self._proxy, acc, args)
    IN  Result(inv.calls, inv.out, self, <<>>)

\* A body with no statement.
NoBody(self) == Result(<<>>, Return(None), self, <<>>)

\* opengis.bridge.java.metadata.Identifier(proxy)
Identifier(proxy) == [cls |-> "Identifier", _proxy |-> proxy]

\* Identifier.code
Identifier_code(ident) == Forward(ident, "getCode", <<>>)

Classes ==
    {"IdentifiedObject", "GeodeticDatum", "CoordinateSystemAxis", "CoordinateSystem",
     "CartesianCS", "EllipsoidalCS", "CoordinateReferenceSystem", "GeographicCRS",
     "ProjectedCRS"}

\* Mutant: _proxy kept as a class attribute, shared by every instance.
__init___class_attribute(heap, cls, proxy) ==
    Append([i \in DOMAIN heap |-> [heap[i] EXCEPT !._proxy = proxy]],
           [cls |-> cls, _proxy |-> proxy])

\* Mutant: the assignment of the argument is lost.
__init___unassigned(heap, cls, proxy) == Append(heap, [cls |-> cls, _proxy |-> None])

\* IdentifiedObject.__init__, reached by every subclass through super():
\* the heap with one more object, its _proxy the argument.
__init__(heap, cls, proxy) == Append(heap, [cls |-> cls, _proxy |-> proxy])

\* Mutant: the Identifier wraps the proxy itself, getName is never called.
name_of_proxy(self) ==
    Result(<<>>, Return(Identifier(self._proxy)), self, <<"Identifier">>)

\* Mutant: a failure of getName is caught and replaced by an empty Identifier.
name_swallows(self) ==
    LET inv == Invoke(self._proxy, "getName", <<>>)
    IN  Result(inv.calls,
               Return(Identifier(IF inv.out.kind = "raise" THEN None ELSE inv.out.val)),
               self, <<"Identifier">>)

name(self) ==
    LET inv == Invoke(self._proxy, "getName", <<>>)
    IN  IF inv.out.kind = "raise"
        THEN Result(inv.calls, inv.out, self, <<>>)
        ELSE Result(inv.calls, Return(Identifier(inv.out.val)), self, <<"Identifier">>)

\* Mutant: the result is kept on the wrapper in place of the proxy.
to_wkt_rebinds(self) ==
    LET inv == Invoke(self._proxy, "toWKT", <<>>)
    IN  Result(inv.calls, inv.out,
               IF inv.out.kind = "return" THEN [self EXCEPT !._proxy = inv.out.val] ELSE self,
               <<>>)

to_wkt(self) == Forward(self, "toWKT", <<>>)

\* Mutant: the string conversion forwards to the wrong accessor.
__str___as_wkt(self) == Forward(self, "toWKT", <<>>)

__str__(self) == Forward(self, "toString", <<>>)

\* Whether a value that came through the bridge is a Python str: the Java
\* strings, which are what toString, toWKT, getAbbreviation and getCode return.
IsStr(v) ==
    /\ v.tag = "obj"
    /\ v.path[Len(v.path)] \in {"toString", "toWKT", "getAbbreviation", "getCode"}

\* str(w): Python calls __str__ and refuses a result that is not a str.
str(self) ==
    LET r == __str__(self)
    IN  IF r.ret.kind = "return" /\ ~IsStr(r.ret.val)
        THEN Result(r.calls, Raise(Ref("TypeError", <<"__str__">>, 0, <<>>)), r.self, r.made)
        ELSE r

ellipsoid(self) == NoBody(self)

prime_meridian(self) == NoBody(self)

abbreviation(self) == Forward(self, "getAbbreviation", <<>>)

direction(self) == NoBody(self)

unit(self) == NoBody(self)

dimension(self) == Forward(self, "getDimension", <<>>)

\* Mutant: dim is checked before it is forwarded.
axis_checked(self, dim) ==
    IF dim < 0
    THEN Result(<<>>, Raise(Ref("ValueError", <<"axis">>, 0, <<dim>>)), self, <<>>)
    ELSE Forward(self, "getAxis", <<dim>>)

axis(self, dim) == Forward(self, "getAxis", <<dim>>)

coordinate_system(self) == Forward(self, "getCoordinateSystem", <<>>)

datum(self) == Forward(self, "getDatum", <<>>)

base_crs(self) == Forward(self, "getBaseCRS", <<>>)

\* crs.name.code, as test_find_crs reads it.
name_code(self) ==
    LET n == name(self)
    IN  IF n.ret.kind = "raise"
        THEN n
        ELSE LET c == Identifier_code(n.ret.val)
             IN  Result(n.calls \o c.calls, c.ret, n.self, n.made)

\* The classes whose method resolution order reaches each class.
IsA(cls, base) ==
    CASE base = "IdentifiedObject" -> TRUE
      [] base = "CoordinateSystem" -> cls \in {"CoordinateSystem", "CartesianCS", "EllipsoidalCS"}
      [] base = "CoordinateReferenceSystem" -> cls \in {"CoordinateReferenceSystem", "GeographicCRS"}
      [] OTHER -> cls = base

\* ------------------------------------------------------------- the state
NoCall == [w |-> 0, m |-> "none", args |-> <<>>, calls |-> <<>>, ret |-> Return(None), made |-> <<>>]

Init ==
    /\ wrappers = <<>>
    /\ given = <<>>
    /\ jvm = [h \in HandleNames |-> [mode |-> "ok", ver |-> 0]]
    /\ last = NoCall

\* Calls are synchronous and single-threaded: an operation starts when the
\* caller is done with the outcome of the one before.
Idle == last = NoCall

\* The caller's view of one method call on the wrapper at index w.
Called(w, m, args, r) ==
    /\ Idle
    /\ last' = [w |-> w, m |-> m, args |-> args, calls |-> r.calls, ret |-> r.ret, made |-> r.made]
    /\ wrappers' = [wrappers EXCEPT ![w] = r.self]
    /\ jvm' = ApplyCalls(jvm, r.calls)
    /\ UNCHANGED given

Has(w, base) == w \in DOMAIN wrappers /\ IsA(wrappers[w].cls, base)

\* cls(proxy)
Construct(cls, proxy) ==
    /\ Idle
    /\ Len(wrappers) < MaxWrappers
    /\ wrappers' = __init__(wrappers, cls, proxy)
    /\ given' = Append(given, proxy)
    /\ last' = [NoCall EXCEPT !.w = Len(wrappers) + 1, !.m = "__init__", !.args = <<proxy>>]
    /\ UNCHANGED jvm

Call_name(w) == Has(w, "IdentifiedObject") /\ Called(w, "name", <<>>, name(wrappers[w]))

Call_to_wkt(w) == Has(w, "IdentifiedObject") /\ Called(w, "to_wkt", <<>>, to_wkt(wrappers[w]))

Call_str(w) == Has(w, "IdentifiedObject") /\ Called(w, "__str__", <<>>, str(wrappers[w]))

Call_ellipsoid(w) == Has(w, "GeodeticDatum") /\ Called(w, "ellipsoid", <<>>, ellipsoid(wrappers[w]))

Call_prime_meridian(w) ==
    Has(w, "GeodeticDatum") /\ Called(w, "prime_meridian", <<>>, prime_meridian(wrappers[w]))

Call_abbreviation(w) ==
    Has(w, "CoordinateSystemAxis") /\ Called(w, "abbreviation", <<>>, abbreviation(wrappers[w]))

Call_direction(w) ==
    Has(w, "CoordinateSystemAxis") /\ Called(w, "direction", <<>>, direction(wrappers[w]))

Call_unit(w) == Has(w, "CoordinateSystemAxis") /\ Called(w, "unit", <<>>, unit(wrappers[w]))

Call_dimension(w) ==
    Has(w, "CoordinateSystem") /\ Called(w, "dimension", <<>>, dimension(wrappers[w]))

Call_axis(w, dim) ==
    Has(w, "CoordinateSystem") /\ Called(w, "axis", <<dim>>, axis(wrappers[w], dim))

Call_coordinate_system(w) ==
    /\ Has(w, "CoordinateReferenceSystem")
    /\ Called(w, "coordinate_system", <<>>, coordinate_system(wrappers[w]))

Call_datum(w) ==
    Has(w, "CoordinateReferenceSystem") /\ Called(w, "datum", <<>>, datum(wrappers[w]))

Call_base_crs(w) == Has(w, "ProjectedCRS") /\ Called(w, "base_crs", <<>>, base_crs(wrappers[w]))

Call_name_code(w) ==
    Has(w, "IdentifiedObject") /\ Called(w, "name.code", <<>>, name_code(wrappers[w]))

\* The foreign runtime changes an object between two Python-side operations.
ForeignChange(h) ==
    /\ Idle
    /\ \E st \in ForeignStates \ {jvm[h]} : jvm' = [jvm EXCEPT ![h] = st]
    /\ UNCHANGED <<wrappers, given, last>>

\* The caller has used the outcome of the latest operation and moves on.
Proceed ==
    /\ ~Idle
    /\ last' = NoCall
    /\ UNCHANGED <<wrappers, given, jvm>>

Next ==
    \/ \E cls \in Classes, proxy \in Handles \cup {None} : Construct(cls, proxy)
    \/ \E w \in 1..MaxWrappers : Call_name(w)
    \/ \E w \in 1..MaxWrappers : Call_to_wkt(w)
    \/ \E w \in 1..MaxWrappers : Call_str(w)
    \/ \E w \in 1..MaxWrappers : Call_ellipsoid(w)
    \/ \E w \in 1..MaxWrappers : Call_prime_meridian(w)
    \/ \E w \in 1..MaxWrappers : Call_abbreviation(w)
    \/ \E w \in 1..MaxWrappers : Call_direction(w)
    \/ \E w \in 1..MaxWrappers : Call_unit(w)
    \/ \E w \in 1..MaxWrappers : Call_dimension(w)
    \/ \E w \in 1..MaxWrappers, dim \in Dims : Call_axis(w, dim)
    \/ \E w \in 1..MaxWrappers : Call_coordinate_system(w)
    \/ \E w \in 1..MaxWrappers : Call_datum(w)
    \/ \E w \in 1..MaxWrappers : Call_base_crs(w)
    \/ \E w \in 1..MaxWrappers : Call_name_code(w)
    \/ \E h \in HandleNames : ForeignChange(h)
    \/ Proceed

Spec == Init /\ [][Next]_vars

\* ------------------------------------------------------------ the claims
WrapperMethods ==
    {"name", "to_wkt", "__str__", "ellipsoid", "prime_meridian", "abbreviation",
     "direction", "unit", "dimension", "axis", "coordinate_system", "datum", "base_crs"}

\* The foreign accessor each wrapper method is said to correspond to.
Accessor(m) ==
    CASE m = "name" -> "getName"
      [] m = "to_wkt" -> "toWKT"
      [] m = "__str__" -> "toString"
      [] m = "ellipsoid" -> "getEllipsoid"
      [] m = "prime_meridian" -> "getPrimeMeridian"
      [] m = "abbreviation" -> "getAbbreviation"
      [] m = "direction" -> "getDirection"
      [] m = "unit" -> "getUnit"
      [] m = "dimension" -> "getDimension"
      [] m = "axis" -> "getAxis"
      [] m = "coordinate_system" -> "getCoordinateSystem"
      [] m = "datum" -> "getDatum"
      [] m = "base_crs" -> "getBaseCRS"

\* The latest operation was a call of a wrapper method.
IsCall == last.m \in WrapperMethods

\* ... on a wrapper around a foreign object (not around None).
IsCallOnHandle == IsCall /\ wrappers[last.w]._proxy # None

\* What the corresponding accessor answers now for the latest call.
Answer == Foreign(wrappers[last.w]._proxy, Accessor(last.m), last.args)

\* What the first foreign invocation of the latest call answers.
FirstAnswer == Foreign(last.calls[1].on, last.calls[1].acc, last.calls[1].args)

\* C1: a call of any wrapper method on a wrapper around a handle invokes
\* exactly one foreign accessor, the corresponding one, on that handle and
\* with the same arguments.
C1_OneCorrespondingAccessor ==
    IsCallOnHandle =>
        last.calls = <<[on |-> wrappers[last.w]._proxy,
                        acc |-> Accessor(last.m),
                        args |-> last.args]>>

\* C2: when getName of the wrapped handle returns an identifier whose
\* getCode returns c, reading name.code on the wrapper yields c, for a
\* wrapper of any class.
C2_NameCodeIsForeignCode ==
    (last.m = "name.code" /\ wrappers[last.w]._proxy # None) =>
        LET n == Foreign(wrappers[last.w]._proxy, "getName", <<>>)
        IN  (n.kind = "return" /\ n.val # None) =>
                last.ret = Foreign(n.val, "getCode", <<>>)

C2_Witness ==
    /\ last.m = "name.code"
    /\ wrappers[last.w].cls = "CoordinateReferenceSystem"
    /\ last.ret = Return(Ref("obj", <<"h1", "getName", "getCode">>, jvm["h1"].ver, <<>>))

\* C3 as claimed: str(w) is what toString of the wrapped handle answers and
\* to_wkt() is what toWKT answers, unmodified.
C3_StrAndWktUnmodified ==
    (IsCallOnHandle /\ last.m \in {"__str__", "to_wkt"}) =>
        /\ last.ret = Answer
        /\ last.made = <<>>

\* C3 as amended: to_wkt() yields what toWKT answers, value, null or failure;
\* str(w) yields what toString answers when that is a string or a failure,
\* and raises TypeError when toString returns null.
C3_StrOfStringAndWktUnmodified ==
    (IsCallOnHandle /\ last.m \in {"__str__", "to_wkt"}) =>
        /\ last.calls = <<[on |-> wrappers[last.w]._proxy,
                           acc |-> Accessor(last.m),
                           args |-> <<>>]>>
        /\ last.made = <<>>
        /\ IF last.m = "__str__" /\ Answer = Return(None)
           THEN last.ret = Raise(Ref("TypeError", <<"__str__">>, 0, <<>>))
           ELSE last.ret = Answer

C3_Witness ==
    /\ last.m = "__str__"
    /\ last.ret = Return(Ref("obj", <<"h1", "toString">>, jvm["h1"].ver, <<>>))

\* The method m of the object self, as attribute lookup resolves it.
Eval(self, m, args) ==
    CASE m = "name" -> name(self)
      [] m = "to_wkt" -> to_wkt(self)
      [] m = "__str__" -> str(self)
      [] m = "ellipsoid" -> ellipsoid(self)
      [] m = "prime_meridian" -> prime_meridian(self)
      [] m = "abbreviation" -> abbreviation(self)
      [] m = "direction" -> direction(self)
      [] m = "unit" -> unit(self)
      [] m = "dimension" -> dimension(self)
      [] m = "axis" -> axis(self, args[1])
      [] m = "coordinate_system" -> coordinate_system(self)
      [] m = "datum" -> datum(self)
      [] m = "base_crs" -> base_crs(self)

\* The calls that can be made on an object of class cls.
CallsOf(cls) ==
    {c \in (WrapperMethods \ {"axis"}) \X {<<>>} :
        \/ c[1] \in {"name", "to_wkt", "__str__"}
        \/ c[1] \in {"ellipsoid", "prime_meridian"} /\ IsA(cls, "GeodeticDatum")
        \/ c[1] \in {"abbreviation", "direction", "unit"} /\ IsA(cls, "CoordinateSystemAxis")
        \/ c[1] = "dimension" /\ IsA(cls, "CoordinateSystem")
        \/ c[1] \in {"coordinate_system", "datum"} /\ IsA(cls, "CoordinateReferenceSystem")
        \/ c[1] = "base_crs" /\ IsA(cls, "ProjectedCRS")}
        \cup {c \in {"axis"} \X {<<d>> : d \in Dims} : IsA(cls, "CoordinateSystem")}

\* C4 (state part): a construction yields a new instance, distinct from every
\* existing one, that holds the handle it was given; and two wrappers of one
\* class around the same handle answer every accessor alike.
C4_NewInstanceSameHandle ==
    /\ last.m = "__init__" =>
        /\ last.w = Len(wrappers)
        /\ wrappers[last.w]._proxy = last.args[1]
    /\ \A i, j \in DOMAIN wrappers :
        (i < j /\ given[i] = given[j] /\ wrappers[i].cls = wrappers[j].cls) =>
            \A c \in CallsOf(wrappers[j].cls) :
                Eval(wrappers[i], c[1], c[2]).ret = Eval(wrappers[j], c[1], c[2]).ret

\* C4 (step part): constructing a wrapper, or calling any method of one,
\* leaves every other wrapper as it was, and with it the result of each of
\* its accessors.
C4_OthersUntouched ==
    \A j \in DOMAIN wrappers :
        (last'.m # "none" /\ j # last'.w) =>
            /\ j \in DOMAIN wrappers'
            /\ wrappers'[j] = wrappers[j]
            /\ \A c \in CallsOf(wrappers[j].cls) :
                Eval(wrappers[j], c[1], c[2])' = Eval(wrappers[j], c[1], c[2])

\* C4: wrapping the same handle twice yields two distinct wrappers that both
\* forward to it and share no mutable state: whatever is done with one, the
\* accessors of the other answer as if the first had never existed.
C4_IndependentWrappers == []C4_NewInstanceSameHandle /\ [][C4_OthersUntouched]_vars

C4_Witness ==
    /\ Len(wrappers) = 2
    /\ wrappers[1] = wrappers[2]
    /\ given[1] = Handle("h1")
    /\ given[2] = Handle("h1")
    /\ IsCall
    /\ last.w = 1
    /\ last.ret.kind = "return"
    /\ Eval(wrappers[2], last.m, last.args).ret = last.ret

\* C5 as claimed: no wrapper that exists holds a null proxy.
C5_ProxyNonNull == \A w \in DOMAIN wrappers : wrappers[w]._proxy # None

\* C5 as amended: the constructor stores its argument unchecked, so a wrapper
\* holds exactly what it was constructed with, a handle when it was given a
\* handle and None when it was given None.
C5_ProxyIsConstructorArgument ==
    last.m = "__init__" =>
        /\ wrappers[last.w]._proxy = last.args[1]
        /\ (last.args[1] \in Handles) => (wrappers[last.w]._proxy # None)
        /\ (last.args[1] = None) => (wrappers[last.w]._proxy = None)

C5_Witness ==
    /\ last.m = "__init__"
    /\ last.args[1] = Handle("h1")
    /\ wrappers[last.w] = [cls |-> "GeographicCRS", _proxy |-> Handle("h1")]

\* The result a wrapper method yields from what the foreign accessor
\* answers: name wraps a returned value, str() refuses a null, the others
\* relay the answer.
Adapted(m, out) ==
    CASE m = "name" /\ out.kind = "return" -> Return(Identifier(out.val))
      [] m = "__str__" /\ out = Return(None) -> Raise(Ref("TypeError", <<"__str__">>, 0, <<>>))
      [] OTHER -> out

\* C6: every call of a wrapper accessor reads the foreign object again: its
\* result is what the corresponding foreign accessor answers in the current
\* state of the foreign object, whatever was called before.
C6_EveryAccessorRereads ==
    IsCallOnHandle =>
        /\ Len(last.calls) = 1
        /\ last.ret = Adapted(last.m, Answer)

\* The same for the nine accessors whose body forwards: for these it holds,
\* so C1 and C6 fail for ellipsoid, prime_meridian, direction and unit only.
ForwardingAccessorsReread ==
    (IsCallOnHandle /\ last.m \notin {"ellipsoid", "prime_meridian", "direction", "unit"}) =>
        /\ Len(last.calls) = 1
        /\ last.ret = Adapted(last.m, Answer)

\* C7: when the foreign accessor a wrapper method invokes fails (missing
\* method or foreign exception), that very failure reaches the caller, the
\* accessor was invoked once, nothing was constructed in its place, and the
\* wrapper still holds the handle it was constructed with.
C7_FailurePropagates ==
    (IsCall /\ last.calls # <<>> /\ FirstAnswer.kind = "raise") =>
        /\ last.ret = FirstAnswer
        /\ Len(last.calls) = 1
        /\ last.made = <<>>
        /\ wrappers[last.w]._proxy = given[last.w]

C7_Witness ==
    /\ last.m = "name"
    /\ jvm["h1"].mode = "raise"
    /\ last.ret = Raise(Ref("JavaException", <<"h1", "getName">>, 0, <<>>))

\* C8: when the foreign getter a wrapper accessor invokes returns null, the
\* wrapper accessor returns None (stated for the accessors that read a
\* foreign getter; the string conversion is C3's).
C8_NullPropagates ==
    (IsCall /\ last.m # "__str__" /\ last.calls # <<>> /\ FirstAnswer = Return(None)) =>
        last.ret = Return(None)

\* C9 (state part): every wrapper holds the class and the proxy it was
\* constructed with and no other attribute, and only getter-style foreign
\* accessors have been invoked.
C9_OnlyProxyOnlyGetters ==
    /\ \A w \in DOMAIN wrappers :
        /\ DOMAIN wrappers[w] = {"cls", "_proxy"}
        /\ wrappers[w]._proxy = given[w]
    /\ \A i \in DOMAIN last.calls : last.calls[i].acc \in GetterStyle

\* C9 (step part): no wrapper operation changes a wrapper that exists or the
\* state of a foreign object.
C9_NothingWritten ==
    /\ \A w \in DOMAIN wrappers : w \in DOMAIN wrappers' /\ wrappers'[w] = wrappers[w]
    /\ last'.m # "none" => jvm' = jvm

\* C9: wrapper operations change nothing but the result they return.
C9_Frame == []C9_OnlyProxyOnlyGetters /\ [][C9_NothingWritten]_vars

C9_Witness ==
    /\ last.m = "to_wkt"
    /\ last.ret.kind = "return"
    /\ last.ret.val.tag = "obj"
    /\ wrappers[last.w] = [cls |-> "ProjectedCRS", _proxy |-> Handle("h1")]
    /\ jvm["h1"].ver = MaxVer

\* C10: name returns a newly made Identifier around exactly what getName
\* returned; abbreviation, dimension, axis, coordinate_system, datum,
\* base_crs and to_wkt make one foreign invocation with the arguments as
\* given (any dim) and yield its very outcome, wrapping and checking nothing.
C10_OnlyNameAdapts ==
    /\ (IsCallOnHandle /\ last.m = "name" /\ Answer.kind = "return") =>
        /\ last.ret = Return(Identifier(Answer.val))
        /\ last.made = <<"Identifier">>
    /\ (IsCallOnHandle /\ last.m \in {"abbreviation", "dimension", "axis", "coordinate_system",
                                     "datum", "base_crs", "to_wkt"}) =>
        /\ last.calls = <<[on |-> wrappers[last.w]._proxy,
                           acc |-> Accessor(last.m),
                           args |-> last.args]>>
        /\ last.ret = FirstAnswer
        /\ last.made = <<>>

C10_Witness ==
    /\ last.m = "axis"
    /\ last.args = <<0 - 1>>
    /\ Len(last.calls) = 1
    /\ last.ret = Raise(Ref("IndexOutOfBoundsException", <<"h1", "getAxis">>, 0, <<0 - 1>>))

====
